---- MODULE Spec2Model ----
(***************************************************************************)
(* Model of the pipeline core of DDP_backend:                              *)
(*   - ddpui/core/pipelinefunctions.py: pipeline_with_orgtasks (task       *)
(*     config assembly) and fetch_pipeline_lock (lock / status lookup);    *)
(*   - service.py: traverse_flow_run_graph and get_flow_run_logs (run      *)
(*     graph traversal and log collection).                                *)
(* Each of the three operations has its own specification (SpecAssemble,   *)
(* SpecLock, SpecLogs); the variables of the other two stay idle.          *)
(***************************************************************************)
EXTENDS Integers, Sequences, FiniteSets, TLC

(* ------------------------------ bounds -------------------------------- *)

\* longest list of org tasks handed to pipeline_with_orgtasks
MaxTasks == 3

\* largest caller-supplied start_seq
MaxStartSeq == 1

(* --------------------------- python values ---------------------------- *)

\* Python's None / an optional value: None is the empty tuple, a present
\* value x is the one-element tuple <<x>>.
None == <<>>

Some(x) == <<x>>

Get(o) == o[1]

\* truthiness of a dict (a record): the empty dict is falsy
EmptyDict == <<>>

Truthy(d) == DOMAIN d # {}

\* strings that are looked into are lists of words; "" is the empty list
EmptyString == <<>>

(* ------------------ constants imported by the module ------------------ *)

TASK_AIRBYTESYNC == "airbyte-sync"

TASK_GITPULL == "git-pull"

AIRBYTECONNECTION == "Airbyte Connection"

DBTCORE == "dbt Core Operation"

SHELLOPERATION == "Shell Operation"

SECRET == "Secret"

AIRBYTE_SYNC_TIMEOUT == "AIRBYTE_SYNC_TIMEOUT"

(* ----------------------------- variables ------------------------------ *)

VARIABLES
    \* pipeline_with_orgtasks
    org_blocks,          \* OrgPrefectBlockv1 rows of the org, in pk order
    org_tasks,           \* argument: list of OrgTask
    server_block,        \* argument: optional block
    cli_block,           \* argument: optional block
    dbt_project_params,  \* argument: optional DbtProjectParams
    caller_start_seq,    \* argument start_seq as the caller passed it
    start_seq,           \* the local start_seq, incremented by the loop
    task_configs,        \* local list task_configs
    asm_i,               \* position of the for loop in org_tasks
    asm_pc,              \* "idle" | "loop" | "returned" | "raised"
    asm_result,          \* what the caller received: None or Some(<<task_configs, None>>)
    asm_error,           \* the exception that left pipeline_with_orgtasks, if any
    asm_skipped,         \* positions whose to_json() came back falsy
    \* fetch_pipeline_lock
    dataflow,            \* argument: the queried dataflow
    dataflow_orgtasks,   \* DataflowOrgTask rows
    task_locks,          \* TaskLock rows in pk order
    lock,                \* local: the row .first() returned, or None
    lock_status,         \* local: lock_status
    lock_pc,             \* "idle" | "lookup" | "query" | "returned" | "raised"
    lock_result,         \* return value: None or Some(view)
    lock_error,          \* exception that reached the caller, if any
    engine_reply,        \* what get_flow_run did in this call, if it was called
    status_queries,      \* number of get_flow_run calls made
    \* traverse_flow_run_graph / get_flow_run_logs
    flow_run_id,         \* argument: root run id
    offset,              \* argument: offset
    graph,               \* what the engine has answered per run: None or Some(node list)
    stack,               \* call stack of traverse_flow_run_graph
    flow_runs,           \* the accumulator list
    logs_pc,             \* "idle" | "traverse" | "logs" | "returned" | "raised"
    logs_result,         \* return value of get_flow_run_logs
    logs_error,          \* exception that reached the caller, if any
    log_queries,         \* payloads POSTed to logs/filter
    graph_queries,       \* run ids whose graph was requested, in order
    raw_logs,            \* what logs/filter answered
    failed_queries       \* endpoints whose request the engine failed

asm_vars == <<org_blocks, org_tasks, server_block, cli_block, dbt_project_params,
              caller_start_seq, start_seq, task_configs, asm_i, asm_pc,
              asm_result, asm_error, asm_skipped>>

lock_vars == <<dataflow, dataflow_orgtasks, task_locks, lock, lock_status, lock_pc,
               lock_result, lock_error, engine_reply, status_queries>>

logs_vars == <<flow_run_id, offset, graph, stack, flow_runs, logs_pc, logs_result,
               logs_error, log_queries, graph_queries, raw_logs, failed_queries>>

vars == <<asm_vars, lock_vars, logs_vars>>

(***************************************************************************)
(* pipeline_with_orgtasks                                                  *)
(***************************************************************************)

\* task slugs: the two well-known kinds, a dbt task and a slug nobody knows
Slugs == {TASK_AIRBYTESYNC, TASK_GITPULL, "dbt-run", "custom-task"}

\* block names are lists of words; block_name__contains looks for a word
BlockNameContains(block_name, word) == \E k \in 1..Len(block_name) : block_name[k] = word

\* the OrgPrefectBlockv1 rows an org may have, in primary-key order
AllBlocks == <<
    [block_type |-> SECRET, block_name |-> <<"org", "git-pull", "url">>],
    [block_type |-> SECRET, block_name |-> <<"org", "warehouse", "password">>],
    [block_type |-> DBTCORE, block_name |-> <<"org", "git-pull", "profile">>] >>

\* the sub-lists of a list, order kept
RECURSIVE SubSeqs(_)
SubSeqs(s) ==
    IF s = <<>> THEN {<<>>}
    ELSE LET rest == SubSeqs(Tail(s))
         IN rest \cup {<<Head(s)>> \o t : t \in rest}

\* the lookup without its block_type filter
RECURSIVE FirstGitPullAnyType(_)
FirstGitPullAnyType(blocks) ==
    IF blocks = <<>> THEN None
    ELSE IF BlockNameContains(Head(blocks).block_name, "git-pull")
         THEN Some(Head(blocks))
         ELSE FirstGitPullAnyType(Tail(blocks))

\* OrgPrefectBlockv1.objects.filter(org=org, block_type=SECRET,
\*     block_name__contains="git-pull").first()
RECURSIVE FirstGitPullSecret(_)
FirstGitPullSecret(blocks) ==
    IF blocks = <<>> THEN None
    ELSE IF /\ Head(blocks).block_type = SECRET
            /\ BlockNameContains(Head(blocks).block_name, "git-pull")
         THEN Some(Head(blocks))
         ELSE FirstGitPullSecret(Tail(blocks))

\* an OrgTask: task.slug, uuid and connection_id
OrgTask(slug, k) == [slug |-> slug, uuid |-> k, connection_id |-> k,
                     task_parameters |-> <<slug, "params">>]

setup_airbyte_sync_task_config(org_task, block, seq) ==
    [seq |-> seq,
     slug |-> org_task.slug,
     type |-> AIRBYTECONNECTION,
     airbyte_server_block |-> Get(block).block_name,
     connection_id |-> org_task.connection_id,
     timeout |-> AIRBYTE_SYNC_TIMEOUT,
     orgtask_uuid |-> org_task.uuid]

setup_dbt_core_task_config(org_task, cli_profile_block, params, seq) ==
    [seq |-> seq,
     slug |-> org_task.slug,
     commands |-> << <<Get(params).dbt_binary, org_task.task_parameters,
                       "--target", Get(params).target>> >>,
     type |-> DBTCORE,
     env |-> EmptyDict,
     working_dir |-> Get(params).project_dir,
     profiles_dir |-> <<Get(params).project_dir, "/profiles/">>,
     project_dir |-> Get(params).project_dir,
     cli_profile_block |-> Get(cli_profile_block).block_name,
     cli_args |-> <<>>,
     orgtask_uuid |-> org_task.uuid]

setup_git_pull_shell_task_config(org_task, project_dir, gitpull_secret_block, seq) ==
    LET shell_env == IF gitpull_secret_block # None
                     THEN [secret_git_pull_url_block |-> Get(gitpull_secret_block).block_name]
                     ELSE [secret_git_pull_url_block |-> EmptyString]
    IN [commands |-> << <<"git", org_task.task_parameters>> >>,
        working_dir |-> project_dir,
        env |-> shell_env,
        slug |-> org_task.slug,
        type |-> SHELLOPERATION,
        seq |-> seq,
        orgtask_uuid |-> org_task.uuid]

\* the default of the seq parameter of the three setup functions
DefaultSeq == 1

\* the schema object's to_json(): the object's fields as a dict; a build
\* step that yields no descriptor hands back a falsy value
to_json(setup, yields) == IF yields THEN setup ELSE EmptyDict

\* the attribute access on None that the branch for org_task performs, if any
MissingContext(org_task) ==
    IF org_task.slug = TASK_AIRBYTESYNC THEN server_block = None
    ELSE IF org_task.slug = TASK_GITPULL THEN dbt_project_params = None
    ELSE dbt_project_params = None \/ cli_block = None

\* the dispatch with the dbt slug named and the shell path as its else branch
BuildSetupShellDefault(org_task) ==
    IF org_task.slug = TASK_AIRBYTESYNC
    THEN setup_airbyte_sync_task_config(org_task, server_block, DefaultSeq)
    ELSE IF org_task.slug = "dbt-run"
    THEN setup_dbt_core_task_config(org_task, cli_block, dbt_project_params, DefaultSeq)
    ELSE setup_git_pull_shell_task_config(org_task, Get(dbt_project_params).project_dir,
                                          FirstGitPullSecret(org_blocks), DefaultSeq)

\* the setup object the branch for org_task builds
BuildSetup(org_task) ==
    IF org_task.slug = TASK_AIRBYTESYNC
    THEN setup_airbyte_sync_task_config(org_task, server_block, DefaultSeq)
    ELSE IF org_task.slug = TASK_GITPULL
    THEN setup_git_pull_shell_task_config(org_task, Get(dbt_project_params).project_dir,
                                          FirstGitPullSecret(org_blocks), DefaultSeq)
    ELSE setup_dbt_core_task_config(org_task, cli_block, dbt_project_params, DefaultSeq)

\* the assignment task_config["seq"] = start_seq left out
SetSeqForgotten(task_config, seq) == task_config

\* task_config["seq"] = start_seq
SetSeq(task_config, seq) == [task_config EXCEPT !.seq = seq]

TheServerBlock == [block_type |-> "Airbyte Server", block_name |-> <<"org", "airbyte", "server">>]

TheCliBlock == [block_type |-> "dbt CLI Profile", block_name |-> <<"org", "cli", "profile">>]

TheDbtParams == [dbt_binary |-> "venv/bin/dbt", target |-> "prod", project_dir |-> "/clients/org/dbtrepo"]

AsmIdle ==
    /\ org_blocks = <<>>
    /\ org_tasks = <<>>
    /\ server_block = None
    /\ cli_block = None
    /\ dbt_project_params = None
    /\ caller_start_seq = 0
    /\ start_seq = 0
    /\ task_configs = <<>>
    /\ asm_i = 1
    /\ asm_pc = "idle"
    /\ asm_result = None
    /\ asm_error = None
    /\ asm_skipped = {}

\* the call pipeline_with_orgtasks(org, org_tasks, server_block, cli_block,
\* dbt_project_params, start_seq) has been made; task_configs = []
AsmInit ==
    /\ org_blocks \in SubSeqs(AllBlocks)
    /\ \E n \in 0..MaxTasks : \E slugs \in [1..n -> Slugs] :
           org_tasks = [k \in 1..n |-> OrgTask(slugs[k], k)]
    /\ server_block \in {None, Some(TheServerBlock)}
    /\ cli_block \in {None, Some(TheCliBlock)}
    /\ dbt_project_params \in {None, Some(TheDbtParams)}
    /\ caller_start_seq \in 0..MaxStartSeq
    /\ start_seq = caller_start_seq
    /\ task_configs = <<>>
    /\ asm_i = 1
    /\ asm_pc = "loop"
    /\ asm_result = None
    /\ asm_error = None
    /\ asm_skipped = {}

\* the AttributeError caught and handed back next to the configs built so far
AssembleRaiseSwallowed ==
    /\ asm_pc = "loop"
    /\ asm_i <= Len(org_tasks)
    /\ MissingContext(org_tasks[asm_i])
    /\ asm_result' = Some(<<task_configs, Some([type |-> "AttributeError", task |-> asm_i])>>)
    /\ asm_pc' = "returned"
    /\ UNCHANGED <<org_blocks, org_tasks, server_block, cli_block, dbt_project_params,
                   caller_start_seq, start_seq, task_configs, asm_i, asm_error,
                   asm_skipped>>
    /\ UNCHANGED <<lock_vars, logs_vars>>

\* one iteration of the for loop whose setup_* call dereferences None:
\* the AttributeError leaves pipeline_with_orgtasks, nothing is returned
AssembleRaise ==
    /\ asm_pc = "loop"
    /\ asm_i <= Len(org_tasks)
    /\ MissingContext(org_tasks[asm_i])
    /\ asm_error' = Some([type |-> "AttributeError", task |-> asm_i])
    /\ asm_pc' = "raised"
    /\ UNCHANGED <<org_blocks, org_tasks, server_block, cli_block, dbt_project_params,
                   caller_start_seq, start_seq, task_configs, asm_i, asm_result,
                   asm_skipped>>
    /\ UNCHANGED <<lock_vars, logs_vars>>

\* one iteration of the for loop that builds a task config
AssembleStep ==
    /\ asm_pc = "loop"
    /\ asm_i <= Len(org_tasks)
    /\ ~MissingContext(org_tasks[asm_i])
    /\ \E yields \in BOOLEAN :
         LET task_config == to_json(BuildSetup(org_tasks[asm_i]), yields)
         IN IF Truthy(task_config)
            THEN /\ task_configs' = Append(task_configs, SetSeq(task_config, start_seq))
                 /\ start_seq' = start_seq + 1
                 /\ asm_skipped' = asm_skipped
            ELSE /\ asm_skipped' = asm_skipped \cup {asm_i}
                 /\ UNCHANGED <<task_configs, start_seq>>
    /\ asm_i' = asm_i + 1
    /\ UNCHANGED <<org_blocks, org_tasks, server_block, cli_block, dbt_project_params,
                   caller_start_seq, asm_pc, asm_result, asm_error>>
    /\ UNCHANGED <<lock_vars, logs_vars>>

\* return task_configs, None
AssembleReturn ==
    /\ asm_pc = "loop"
    /\ asm_i > Len(org_tasks)
    /\ asm_result' = Some(<<task_configs, None>>)
    /\ asm_pc' = "returned"
    /\ UNCHANGED <<org_blocks, org_tasks, server_block, cli_block, dbt_project_params,
                   caller_start_seq, start_seq, task_configs, asm_i, asm_error,
                   asm_skipped>>
    /\ UNCHANGED <<lock_vars, logs_vars>>

(***************************************************************************)
(* fetch_pipeline_lock                                                     *)
(***************************************************************************)

\* number of org tasks in the database
NumTasks == 2

\* most TaskLock rows in the database
MaxLocks == 2

Tasks == 1..NumTasks

\* the dataflows in the database
Dataflows == {1, 2}

\* a null foreign key / a null flow_run_id (falsy)
Null == 0

\* the flow run ids a TaskLock may carry
LockRunIds == {1}

\* TaskLockStatus
QUEUED == "queued"

RUNNING == "running"

LOCKED == "locked"

COMPLETED == "complete"

\* state types the engine reports for a flow run
StateTypes == {"SCHEDULED", "PENDING", "RUNNING", "COMPLETED", "FAILED", "CRASHED"}

\* what prefect_service.get_flow_run(flow_run_id) can do: raise, or return
\* None (no such run), an empty dict, a dict with state_type, or a dict
\* without state_type
EngineReplies ==
    {[outcome |-> "raise"]}
    \cup {[outcome |-> "return", value |-> None]}
    \cup {[outcome |-> "return", value |-> Some(EmptyDict)]}
    \cup {[outcome |-> "return", value |-> Some([state_type |-> s])] : s \in StateTypes}
    \cup {[outcome |-> "return", value |-> Some([detail |-> "Not Found"])]}

\* truthiness of the value get_flow_run returned (None and {} are falsy)
FlowRunTruthy(flow_run) == flow_run # None /\ Truthy(Get(flow_run))

\* flow_run["state_type"] raises KeyError
KeyErrorOnStateType(flow_run) ==
    FlowRunTruthy(flow_run) /\ "state_type" \notin DOMAIN Get(flow_run)

\* the first branch testing for "PENDING" only
StatusPendingOnly(flow_run) ==
    IF FlowRunTruthy(flow_run) /\ Get(flow_run).state_type = "PENDING"
    THEN QUEUED
    ELSE IF FlowRunTruthy(flow_run) /\ Get(flow_run).state_type = "RUNNING"
    THEN RUNNING
    ELSE COMPLETED

\* the if / elif / else on flow_run["state_type"]
StatusOfFlowRun(flow_run) ==
    IF FlowRunTruthy(flow_run) /\ Get(flow_run).state_type \in {"SCHEDULED", "PENDING"}
    THEN QUEUED
    ELSE IF FlowRunTruthy(flow_run) /\ Get(flow_run).state_type = "RUNNING"
    THEN RUNNING
    ELSE COMPLETED

\* DataflowOrgTask.objects.filter(dataflow=dataflow).values_list("orgtask_id")
OrgTaskIds(df) == {row.orgtask_id : row \in {r \in dataflow_orgtasks : r.dataflow = df}}

\* TaskLock.objects.filter(orgtask_id__in=org_task_ids).first()
RECURSIVE FirstLock(_, _)
FirstLock(rows, org_task_ids) ==
    IF rows = <<>> THEN None
    ELSE IF Head(rows).orgtask_id \in org_task_ids THEN Some(Head(rows))
    ELSE FirstLock(Tail(rows), org_task_ids)

\* the dict fetch_pipeline_lock returns
LockView(lk, status, df) ==
    [lockedBy |-> lk.locked_by,
     lockedAt |-> lk.locked_at,
     flowRunId |-> lk.flow_run_id,
     status |-> IF lk.locking_dataflow = df THEN status ELSE LOCKED]

LockIdle ==
    /\ dataflow = Null
    /\ dataflow_orgtasks = {}
    /\ task_locks = <<>>
    /\ lock = None
    /\ lock_status = QUEUED
    /\ lock_pc = "idle"
    /\ lock_result = None
    /\ lock_error = None
    /\ engine_reply = None
    /\ status_queries = 0

\* the call fetch_pipeline_lock(dataflow) has been made; the queried dataflow
\* has any set of org tasks, the other dataflows have none or all of them
LockInit ==
    /\ dataflow \in Dataflows
    /\ \E own \in SUBSET Tasks : \E shared \in {{}, Tasks} :
         dataflow_orgtasks =
             {[dataflow |-> dataflow, orgtask_id |-> t] : t \in own}
             \cup {[dataflow |-> d, orgtask_id |-> t] : d \in Dataflows \ {dataflow}, t \in shared}
    /\ \E n \in 0..MaxLocks :
         \E rows \in [1..n -> [orgtask_id : Tasks,
                               flow_run_id : LockRunIds \cup {Null},
                               locking_dataflow : Dataflows \cup {Null}]] :
           task_locks = [k \in 1..n |->
                           [orgtask_id |-> rows[k].orgtask_id,
                            flow_run_id |-> rows[k].flow_run_id,
                            locking_dataflow |-> rows[k].locking_dataflow,
                            locked_by |-> "orguser@org",
                            locked_at |-> k]]
    /\ lock = None
    /\ lock_status = QUEUED
    /\ lock_pc = "lookup"
    /\ lock_result = None
    /\ lock_error = None
    /\ engine_reply = None
    /\ status_queries = 0

\* the lookups without the test "if lock.flow_run_id:": the engine is asked
\* for every lock found
LockLookupAlwaysQuery ==
    /\ lock_pc = "lookup"
    /\ lock' = FirstLock(task_locks, OrgTaskIds(dataflow))
    /\ lock_status' = QUEUED
    /\ lock_result' = None
    /\ lock_pc' = IF lock' = None THEN "returned" ELSE "query"
    /\ UNCHANGED <<dataflow, dataflow_orgtasks, task_locks, lock_error, engine_reply,
                   status_queries>>
    /\ UNCHANGED <<asm_vars, logs_vars>>

\* the two database lookups; without a lock row the call returns None, with
\* a lock row that has no flow_run_id it returns the view with QUEUED
LockLookup ==
    /\ lock_pc = "lookup"
    /\ lock' = FirstLock(task_locks, OrgTaskIds(dataflow))
    /\ lock_status' = QUEUED
    /\ IF lock' = None
       THEN /\ lock_result' = None
            /\ lock_pc' = "returned"
       ELSE IF Get(lock').flow_run_id = Null
       THEN /\ lock_result' = Some(LockView(Get(lock'), QUEUED, dataflow))
            /\ lock_pc' = "returned"
       ELSE /\ lock_result' = None
            /\ lock_pc' = "query"
    /\ UNCHANGED <<dataflow, dataflow_orgtasks, task_locks, lock_error, engine_reply,
                   status_queries>>
    /\ UNCHANGED <<asm_vars, logs_vars>>

\* prefect_service.get_flow_run(lock.flow_run_id) and the rest of the call
LockStatusQuery ==
    /\ lock_pc = "query"
    /\ \E reply \in EngineReplies :
         /\ engine_reply' = Some(reply)
         /\ status_queries' = status_queries + 1
         /\ IF reply.outcome = "raise"
            THEN /\ lock_error' = Some("HttpError")
                 /\ lock_pc' = "raised"
                 /\ UNCHANGED <<lock_status, lock_result>>
            ELSE IF KeyErrorOnStateType(reply.value)
            THEN /\ lock_error' = Some("KeyError")
                 /\ lock_pc' = "raised"
                 /\ UNCHANGED <<lock_status, lock_result>>
            ELSE /\ lock_status' = StatusOfFlowRun(reply.value)
                 /\ lock_result' = Some(LockView(Get(lock), lock_status', dataflow))
                 /\ lock_pc' = "returned"
                 /\ UNCHANGED lock_error
    /\ UNCHANGED <<dataflow, dataflow_orgtasks, task_locks, lock>>
    /\ UNCHANGED <<asm_vars, logs_vars>>

(***************************************************************************)
(* traverse_flow_run_graph and get_flow_run_logs                           *)
(***************************************************************************)

\* number of flow runs the engine knows
NumRuns == 3

\* most graph nodes the engine reports in total, over all runs
MaxGraphNodes == 3

\* most log records in one answer of logs/filter
MaxLogs == 2

\* largest caller-supplied offset
MaxOffset == 1

Runs == 1..NumRuns

\* the accumulator is not followed beyond this length (cyclic graphs)
MaxAcc == NumRuns + 2

\* the shapes of a node of flow_runs/<id>/graph: without "state", with a
\* state without "state_details", with a null child_flow_run_id, with a child
GraphNodes ==
    {[has_state |-> FALSE, has_details |-> FALSE, child_flow_run_id |-> Null],
     [has_state |-> TRUE, has_details |-> FALSE, child_flow_run_id |-> Null]}
    \cup {[has_state |-> TRUE, has_details |-> TRUE, child_flow_run_id |-> c] :
             c \in Runs \cup {Null}}

\* node lists of at most n nodes
NodeLists(n) == UNION {[1..k -> GraphNodes] : k \in 0..n}

\* the condition without its test of child_flow_run_id
HasChildNullNotTested(flow) ==
    /\ flow.has_state
    /\ flow.has_details

\* the condition under which the loop recurses into a node
HasChild(flow) ==
    /\ flow.has_state
    /\ flow.has_details
    /\ flow.child_flow_run_id # Null

\* number of nodes the engine has reported so far
RECURSIVE ReportedNodes(_, _)
ReportedNodes(g, rs) ==
    IF rs = {} THEN 0
    ELSE LET r == CHOOSE x \in rs : TRUE
         IN (IF g[r] = None THEN 0 ELSE Len(Get(g[r]))) + ReportedNodes(g, rs \ {r})

\* the raw log records logs/filter may answer with
RawLogs == {[id |-> t, flow_run_id |-> 1, level |-> "INFO", timestamp |-> t,
             message |-> "message"] : t \in 1..MaxLogs}

\* select level, timestamp, message
parse_log(log) ==
    [level |-> log.level,
     timestamp |-> log.timestamp,
     message |-> log.message]

\* list(map(parse_log, logs))
MapParseLog(logs) == [k \in 1..Len(logs) |-> parse_log(logs[k])]

\* the filter naming the root run only
LogsFilterRootOnly(flow_run_ids, off) ==
    [logs |-> [operator |-> "and_", flow_run_id |-> [any_ |-> <<flow_run_ids[1]>>]],
     sort |-> "TIMESTAMP_ASC",
     offset |-> off]

\* the body POSTed to logs/filter
LogsFilter(flow_run_ids, off) ==
    [logs |-> [operator |-> "and_", flow_run_id |-> [any_ |-> flow_run_ids]],
     sort |-> "TIMESTAMP_ASC",
     offset |-> off]

\* the stack frame of a call traverse_flow_run_graph(run, flow_runs)
Frame(run) == [run |-> run, pc |-> "enter", nodes |-> <<>>, idx |-> 1]

Top == stack[Len(stack)]

Pop == SubSeq(stack, 1, Len(stack) - 1)

SetTop(frame) == [stack EXCEPT ![Len(stack)] = frame]

\* where get_flow_run_logs continues once a frame has returned
PcAfterReturn == IF Len(stack) = 1 THEN "logs" ELSE "traverse"

LogsIdle ==
    /\ flow_run_id = Null
    /\ offset = 0
    /\ graph = [r \in Runs |-> None]
    /\ stack = <<>>
    /\ flow_runs = <<>>
    /\ logs_pc = "idle"
    /\ logs_result = None
    /\ logs_error = None
    /\ log_queries = <<>>
    /\ graph_queries = <<>>
    /\ raw_logs = <<>>
    /\ failed_queries = <<>>

\* the call get_flow_run_logs(flow_run_id, offset) has been made and has
\* called traverse_flow_run_graph(flow_run_id, [])
LogsInit ==
    /\ flow_run_id \in {Null, 1}
    /\ offset \in 0..MaxOffset
    /\ graph = [r \in Runs |-> None]
    /\ stack = <<Frame(flow_run_id)>>
    /\ flow_runs = <<>>
    /\ logs_pc = "traverse"
    /\ logs_result = None
    /\ logs_error = None
    /\ log_queries = <<>>
    /\ graph_queries = <<>>
    /\ raw_logs = <<>>
    /\ failed_queries = <<>>

\* flow_runs.append(flow_run_id); if flow_run_id is None: return flow_runs
TraverseEnter ==
    /\ logs_pc = "traverse"
    /\ Top.pc = "enter"
    /\ Len(flow_runs) < MaxAcc
    /\ flow_runs' = Append(flow_runs, Top.run)
    /\ IF Top.run = Null
       THEN /\ stack' = Pop
            /\ logs_pc' = PcAfterReturn
       ELSE /\ stack' = SetTop([Top EXCEPT !.pc = "query"])
            /\ logs_pc' = logs_pc
    /\ UNCHANGED <<flow_run_id, offset, graph, logs_result, logs_error, log_queries,
                   graph_queries, raw_logs, failed_queries>>
    /\ UNCHANGED <<asm_vars, lock_vars>>

\* the failure of the graph request caught and taken for an empty graph
TraverseQueryFailsSwallowed ==
    /\ logs_pc = "traverse"
    /\ Top.pc = "query"
    /\ graph_queries' = Append(graph_queries, Top.run)
    /\ failed_queries' = Append(failed_queries, <<"flow_runs", Top.run, "graph">>)
    /\ stack' = Pop
    /\ logs_pc' = PcAfterReturn
    /\ UNCHANGED <<flow_run_id, offset, graph, flow_runs, logs_result, logs_error,
                   log_queries, raw_logs>>
    /\ UNCHANGED <<asm_vars, lock_vars>>

\* prefect_get(f"flow_runs/{flow_run_id}/graph") raises HTTPException
TraverseQueryFails ==
    /\ logs_pc = "traverse"
    /\ Top.pc = "query"
    /\ graph_queries' = Append(graph_queries, Top.run)
    /\ logs_error' = Some("HTTPException")
    /\ logs_pc' = "raised"
    /\ stack' = <<>>
    /\ failed_queries' = Append(failed_queries, <<"flow_runs", Top.run, "graph">>)
    /\ UNCHANGED <<flow_run_id, offset, graph, flow_runs, logs_result, log_queries,
                   raw_logs>>
    /\ UNCHANGED <<asm_vars, lock_vars>>

\* flow_graph_data = prefect_get(...); if len(flow_graph_data) == 0: return
TraverseQuery ==
    /\ logs_pc = "traverse"
    /\ Top.pc = "query"
    /\ graph_queries' = Append(graph_queries, Top.run)
    /\ IF graph[Top.run] = None
       THEN \E nodes \in NodeLists(MaxGraphNodes - ReportedNodes(graph, Runs)) :
               graph' = [graph EXCEPT ![Top.run] = Some(nodes)]
       ELSE graph' = graph
    /\ LET flow_graph_data == Get(graph'[Top.run])
       IN IF Len(flow_graph_data) = 0
          THEN /\ stack' = Pop
               /\ logs_pc' = PcAfterReturn
          ELSE /\ stack' = SetTop([Top EXCEPT !.pc = "loop", !.nodes = flow_graph_data,
                                              !.idx = 1])
               /\ logs_pc' = logs_pc
    /\ UNCHANGED <<flow_run_id, offset, flow_runs, logs_result, logs_error, log_queries,
                   raw_logs, failed_queries>>
    /\ UNCHANGED <<asm_vars, lock_vars>>

\* the loop returning right after its first recursive call
TraverseLoopFirstChildOnly ==
    /\ logs_pc = "traverse"
    /\ Top.pc = "loop"
    /\ IF Top.idx > Len(Top.nodes)
       THEN /\ stack' = Pop
            /\ logs_pc' = PcAfterReturn
       ELSE LET flow == Top.nodes[Top.idx]
                advanced == SetTop([Top EXCEPT !.idx = Top.idx + 1])
                finished == SetTop([Top EXCEPT !.idx = Len(Top.nodes) + 1])
            IN /\ stack' = IF HasChild(flow)
                           THEN Append(finished, Frame(flow.child_flow_run_id))
                           ELSE advanced
               /\ logs_pc' = logs_pc
    /\ UNCHANGED <<flow_run_id, offset, graph, flow_runs, logs_result, logs_error,
                   log_queries, graph_queries, raw_logs, failed_queries>>
    /\ UNCHANGED <<asm_vars, lock_vars>>

\* the loop with a visited test: a child already in flow_runs is not entered
TraverseLoopVisitedGuard ==
    /\ logs_pc = "traverse"
    /\ Top.pc = "loop"
    /\ IF Top.idx > Len(Top.nodes)
       THEN /\ stack' = Pop
            /\ logs_pc' = PcAfterReturn
       ELSE LET flow == Top.nodes[Top.idx]
                advanced == SetTop([Top EXCEPT !.idx = Top.idx + 1])
                visited == {flow_runs[k] : k \in 1..Len(flow_runs)}
            IN /\ stack' = IF HasChild(flow) /\ flow.child_flow_run_id \notin visited
                           THEN Append(advanced, Frame(flow.child_flow_run_id))
                           ELSE advanced
               /\ logs_pc' = logs_pc
    /\ UNCHANGED <<flow_run_id, offset, graph, flow_runs, logs_result, logs_error,
                   log_queries, graph_queries, raw_logs, failed_queries>>
    /\ UNCHANGED <<asm_vars, lock_vars>>

\* one iteration of "for flow in flow_graph_data", or its end: return flow_runs
TraverseLoop ==
    /\ logs_pc = "traverse"
    /\ Top.pc = "loop"
    /\ IF Top.idx > Len(Top.nodes)
       THEN /\ stack' = Pop
            /\ logs_pc' = PcAfterReturn
       ELSE LET flow == Top.nodes[Top.idx]
                advanced == SetTop([Top EXCEPT !.idx = Top.idx + 1])
            IN /\ stack' = IF HasChild(flow)
                           THEN Append(advanced, Frame(flow.child_flow_run_id))
                           ELSE advanced
               /\ logs_pc' = logs_pc
    /\ UNCHANGED <<flow_run_id, offset, graph, flow_runs, logs_result, logs_error,
                   log_queries, graph_queries, raw_logs, failed_queries>>
    /\ UNCHANGED <<asm_vars, lock_vars>>

\* prefect_post("logs/filter", ...) raises HTTPException
LogsQueryFails ==
    /\ logs_pc = "logs"
    /\ log_queries' = Append(log_queries, LogsFilter(flow_runs, offset))
    /\ logs_error' = Some("HTTPException")
    /\ logs_pc' = "raised"
    /\ failed_queries' = Append(failed_queries, <<"logs", "filter">>)
    /\ UNCHANGED <<flow_run_id, offset, graph, stack, flow_runs, logs_result,
                   graph_queries, raw_logs>>
    /\ UNCHANGED <<asm_vars, lock_vars>>

\* logs = prefect_post("logs/filter", ...); return {"offset": ..., "logs": ...}
LogsQuery ==
    /\ logs_pc = "logs"
    /\ log_queries' = Append(log_queries, LogsFilter(flow_runs, offset))
    /\ \E n \in 0..MaxLogs : raw_logs' \in [1..n -> RawLogs]
    /\ logs_result' = Some([offset |-> offset, logs |-> MapParseLog(raw_logs')])
    /\ logs_pc' = "returned"
    /\ UNCHANGED <<flow_run_id, offset, graph, stack, flow_runs, logs_error,
                   graph_queries, failed_queries>>
    /\ UNCHANGED <<asm_vars, lock_vars>>

(***************************************************************************)
(* specifications                                                          *)
(***************************************************************************)

AssembleInit == AsmInit /\ LockIdle /\ LogsIdle

AssembleNext == AssembleStep \/ AssembleRaise \/ AssembleReturn

SpecAssemble == AssembleInit /\ [][AssembleNext]_vars

LockResolveInit == AsmIdle /\ LockInit /\ LogsIdle

LockNext == LockLookup \/ LockStatusQuery

SpecLock == LockResolveInit /\ [][LockNext]_vars

CollectInit == AsmIdle /\ LockIdle /\ LogsInit

LogsNext ==
    \/ TraverseEnter
    \/ TraverseQuery
    \/ TraverseQueryFails
    \/ TraverseLoop
    \/ LogsQuery
    \/ LogsQueryFails

SpecLogs == CollectInit /\ [][LogsNext]_vars

\* get_flow_run_logs is a synchronous call: it keeps running until it
\* returns or raises
FairSpecLogs == SpecLogs /\ WF_vars(LogsNext)

(***************************************************************************)
(* properties of pipeline_with_orgtasks                                    *)
(***************************************************************************)

\* positions of org_tasks whose build step yielded a descriptor
KeptPositions == {i \in 1..Len(org_tasks) : i \notin asm_skipped}

\* the list pipeline_with_orgtasks returned
Returned == Get(asm_result)[1]

\* C1: the returned descriptors are in input order, their seq values are
\* start_seq, start_seq + 1, ... without gap or repeat, and a build step that
\* yields no descriptor is left out and uses up no sequence number, so the
\* output is as long as the input minus the skipped steps.
C1_SeqContiguous ==
    asm_pc = "returned" =>
        /\ asm_skipped \subseteq 1..Len(org_tasks)
        /\ Len(Returned) = Len(org_tasks) - Cardinality(asm_skipped)
        /\ \A k \in 1..Len(Returned) :
              /\ Returned[k].seq = caller_start_seq + (k - 1)
              /\ Returned[k].orgtask_uuid \in KeptPositions
              /\ Cardinality({i \in KeptPositions : i <= Returned[k].orgtask_uuid}) = k

\* a call that started above 0, skipped a step and still returned two
\* descriptors, one of them built after the skipped step
C1_Witness ==
    /\ asm_pc = "returned"
    /\ caller_start_seq > 0
    /\ Len(Returned) >= 2
    /\ \E i \in asm_skipped : i < Returned[Len(Returned)].orgtask_uuid

\* the org has a secret block whose name contains git-pull
HasGitPullSecret ==
    \E k \in 1..Len(org_blocks) :
        /\ org_blocks[k].block_type = SECRET
        /\ \E w \in 1..Len(org_blocks[k].block_name) : org_blocks[k].block_name[w] = "git-pull"

\* the names of the org's secret blocks whose name contains git-pull
GitPullSecretNames ==
    {org_blocks[k].block_name : k \in {j \in 1..Len(org_blocks) :
        /\ org_blocks[j].block_type = SECRET
        /\ \E w \in 1..Len(org_blocks[j].block_name) : org_blocks[j].block_name[w] = "git-pull"}}

\* C9: a git-pull task of an org without a matching secret block gets a
\* shell descriptor whose secret slot is the empty string, raises no error
\* and takes its sequence number; with a matching block the slot holds the
\* block's name.
C9_GitPullSecretSlot ==
    /\ \A i \in 1..Len(org_tasks) :
          (/\ org_tasks[i].slug = TASK_GITPULL
           /\ i < asm_i
           /\ i \notin asm_skipped)
          => \E k \in 1..Len(task_configs) :
                /\ task_configs[k].orgtask_uuid = i
                /\ task_configs[k].type = SHELLOPERATION
                /\ task_configs[k].seq = caller_start_seq + (k - 1)
                /\ IF HasGitPullSecret
                   THEN task_configs[k].env.secret_git_pull_url_block \in GitPullSecretNames
                   ELSE task_configs[k].env.secret_git_pull_url_block = EmptyString
    /\ (asm_pc = "raised" /\ org_tasks[asm_i].slug = TASK_GITPULL)
          => dbt_project_params = None

\* a git-pull task was assembled, after another task, for an org that has
\* blocks but no matching secret block
C9_Witness ==
    /\ asm_pc = "returned"
    /\ ~HasGitPullSecret
    /\ org_blocks # <<>>
    /\ \E k \in 2..Len(Returned) :
          /\ Returned[k].slug = TASK_GITPULL
          /\ Returned[k].env.secret_git_pull_url_block = EmptyString

\* task i needs an execution context that the caller did not supply
NeedsMissingContext(i) ==
    \/ org_tasks[i].slug = TASK_AIRBYTESYNC /\ server_block = None
    \/ org_tasks[i].slug = TASK_GITPULL /\ dbt_project_params = None
    \/ /\ org_tasks[i].slug \notin {TASK_AIRBYTESYNC, TASK_GITPULL}
       /\ (dbt_project_params = None \/ cli_block = None)

\* C10: when some task of the list needs an execution context that was not
\* supplied, the call ends with the error of the first such task raised to
\* the caller and returns nothing, not even the descriptors built before.
C10_MissingContextRaises ==
    (/\ asm_pc \in {"returned", "raised"}
     /\ \E i \in 1..Len(org_tasks) : NeedsMissingContext(i))
    => /\ asm_pc = "raised"
       /\ asm_result = None
       /\ asm_error # None
       /\ Get(asm_error).type = "AttributeError"
       /\ NeedsMissingContext(Get(asm_error).task)
       /\ \A i \in 1..(Get(asm_error).task - 1) : ~NeedsMissingContext(i)

\* a transform task without dbt_project_params failed the call after a
\* descriptor had already been built
C10_Witness ==
    /\ asm_pc = "raised"
    /\ dbt_project_params = None
    /\ task_configs # <<>>
    /\ org_tasks[asm_i].slug = "dbt-run"

(***************************************************************************)
(* properties of fetch_pipeline_lock                                       *)
(***************************************************************************)

\* the call is over: it returned or an exception left it
LockCallOver == lock_pc \in {"returned", "raised"}

\* some TaskLock row references a task of the queried dataflow
LockRowExists ==
    \E k \in 1..Len(task_locks) :
        \E row \in dataflow_orgtasks :
            row.dataflow = dataflow /\ row.orgtask_id = task_locks[k].orgtask_id

\* the engine was asked and reported a state type or a missing run
EngineReported ==
    /\ engine_reply # None
    /\ Get(engine_reply).outcome = "return"
    /\ \/ Get(engine_reply).value = None
       \/ "state_type" \in DOMAIN Get(Get(engine_reply).value)

\* the state type the engine reported, "" for a missing run
ReportedStateType ==
    IF Get(engine_reply).value = None THEN ""
    ELSE Get(Get(engine_reply).value).state_type

\* C2: a lock with a run id whose locking dataflow is the queried one is
\* reported queued when the engine reports SCHEDULED or PENDING, running
\* when it reports RUNNING, and completed for every other reported state
\* and for a missing run.
C2_StatusFromEngine ==
    (/\ LockCallOver
     /\ lock # None
     /\ Get(lock).flow_run_id # Null
     /\ Get(lock).locking_dataflow = dataflow
     /\ EngineReported)
    => /\ lock_pc = "returned"
       /\ lock_result # None
       /\ Get(lock_result).status =
             CASE ReportedStateType \in {"SCHEDULED", "PENDING"} -> QUEUED
               [] ReportedStateType = "RUNNING" -> RUNNING
               [] OTHER -> COMPLETED

\* the engine reported SCHEDULED for the run of the dataflow's own lock
C2_Witness ==
    /\ lock_pc = "returned"
    /\ lock # None
    /\ Get(lock).locking_dataflow = dataflow
    /\ EngineReported
    /\ ReportedStateType = "SCHEDULED"
    /\ Get(lock_result).status = QUEUED

\* the engine was not asked, or it answered (with whatever content)
EngineAnsweredOrNotAsked ==
    engine_reply = None \/ Get(engine_reply).outcome = "return"

\* C3: whenever the lock found belongs to another dataflow the call reports
\* locked, whatever the engine answers and with or without a run id.
C3_LockedByOther ==
    (/\ LockCallOver
     /\ lock # None
     /\ Get(lock).locking_dataflow # dataflow
     /\ EngineAnsweredOrNotAsked)
    => /\ lock_pc = "returned"
       /\ lock_result # None
       /\ Get(lock_result).status = LOCKED

\* C4: the call returns None exactly when no TaskLock row references a task
\* of the queried dataflow, and returns a lock view whenever such a row
\* exists.
C4_NoneIffNoLockRow ==
    LockCallOver =>
        /\ (lock_pc = "returned" /\ lock_result = None) <=> ~LockRowExists
        /\ LockRowExists => (lock_pc = "returned" /\ lock_result # None)

\* the status query failed, or answered something without a state_type
EngineQueryFailed ==
    /\ engine_reply # None
    /\ \/ Get(engine_reply).outcome = "raise"
       \/ /\ Get(engine_reply).outcome = "return"
          /\ Get(engine_reply).value # None
          /\ DOMAIN Get(Get(engine_reply).value) # {}
          /\ "state_type" \notin DOMAIN Get(Get(engine_reply).value)

\* C5: when the status query fails or answers in an unrecognised shape, the
\* call still returns a lock view instead of raising.
C5_DegradesOnEngineFailure ==
    (LockCallOver /\ EngineQueryFailed)
    => /\ lock_pc = "returned"
       /\ lock_result # None

(***************************************************************************)
(* properties of traverse_flow_run_graph and get_flow_run_logs             *)
(***************************************************************************)

\* the child runs the engine reported for run r
ChildRefs(r) ==
    IF r = Null \/ graph[r] = None THEN {}
    ELSE {Get(graph[r])[k].child_flow_run_id : k \in 1..Len(Get(graph[r]))} \ {Null}

\* the runs reachable from the runs of S in the reported graph
RECURSIVE ReachFrom(_)
ReachFrom(S) ==
    LET T == S \cup UNION {ChildRefs(r) : r \in S}
    IN IF T = S THEN S ELSE ReachFrom(T)

\* the root run and all its descendants
RootAndDescendants == ReachFrom({flow_run_id})

\* how many nodes of the reported graph name c as their child
RefCount(c) ==
    Cardinality({rk \in Runs \X (1..MaxGraphNodes) :
        /\ graph[rk[1]] # None
        /\ rk[2] <= Len(Get(graph[rk[1]]))
        /\ Get(graph[rk[1]])[rk[2]].child_flow_run_id = c})

\* the reported graph is a tree under the root: nothing names the root as a
\* child and every other run is named by at most one node
TreeSoFar ==
    \A c \in Runs : RefCount(c) <= (IF c = flow_run_id THEN 0 ELSE 1)

\* the elements of a list
Range(seq) == {seq[k] : k \in 1..Len(seq)}

\* C6: get_flow_run_logs issues one log query; its flow_run_id filter is the
\* root and all its descendants at every depth (the root alone for a run
\* without children), it asks for TIMESTAMP_ASC and passes the caller's
\* offset; the logs come back in the order received, projected to level,
\* timestamp and message, next to the caller's offset.
C6_OneLogQueryOverAllRuns ==
    logs_pc = "returned" =>
        /\ Len(log_queries) = 1
        /\ Range(log_queries[1].logs.flow_run_id.any_) = RootAndDescendants
        /\ ChildRefs(flow_run_id) = {}
              => log_queries[1].logs.flow_run_id.any_ = <<flow_run_id>>
        /\ log_queries[1].sort = "TIMESTAMP_ASC"
        /\ log_queries[1].offset = offset
        /\ Get(logs_result).offset = offset
        /\ Len(Get(logs_result).logs) = Len(raw_logs)
        /\ \A k \in 1..Len(raw_logs) :
              /\ DOMAIN Get(logs_result).logs[k] = {"level", "timestamp", "message"}
              /\ Get(logs_result).logs[k].level = raw_logs[k].level
              /\ Get(logs_result).logs[k].timestamp = raw_logs[k].timestamp
              /\ Get(logs_result).logs[k].message = raw_logs[k].message

\* logs of a root with a child and a grandchild, asked for with an offset,
\* answered with two records in descending timestamp order
C6_Witness ==
    /\ logs_pc = "returned"
    /\ offset > 0
    /\ \E c \in ChildRefs(flow_run_id) : ChildRefs(c) \ {flow_run_id, c} # {}
    /\ Cardinality(RootAndDescendants) = 3
    /\ Len(raw_logs) = 2
    /\ raw_logs[1].timestamp > raw_logs[2].timestamp

\* C7: once a graph query or the log query has failed, get_flow_run_logs
\* has raised to its caller and has returned no result.
C7_EngineFailureSurfaces ==
    failed_queries # <<>> =>
        /\ logs_pc = "raised"
        /\ logs_error # None
        /\ logs_result = None

\* the graph query of a child run failed after the root had been visited
C7_Witness ==
    /\ logs_pc = "raised"
    /\ Len(flow_runs) >= 2
    /\ failed_queries = << <<"flow_runs", flow_runs[Len(flow_runs)], "graph">> >>

\* the traversal has handed its list back to get_flow_run_logs
TraversalReturned == logs_pc \in {"logs", "returned"}

\* the list holds exactly the root and its descendants, each once
ExactlyOnceEach ==
    /\ Range(flow_runs) = RootAndDescendants
    /\ Cardinality(Range(flow_runs)) = Len(flow_runs)

\* C8: on a tree-shaped run graph the traversal ends, and the list it
\* returns holds the root and every descendant exactly once and nothing
\* else; a null run id or an empty node list ends the call at once with the
\* list that includes that run.
C8_TreeTraversal ==
    /\ [](TraversalReturned /\ TreeSoFar => ExactlyOnceEach)
    /\ [](TraversalReturned /\ flow_run_id = Null
            => flow_runs = <<Null>> /\ graph_queries = <<>>)
    /\ [](TraversalReturned /\ flow_run_id # Null /\ graph[flow_run_id] = Some(<<>>)
            => flow_runs = <<flow_run_id>> /\ graph_queries = <<flow_run_id>>)
    /\ <>(TraversalReturned \/ logs_pc = "raised" \/ ~TreeSoFar)

\* the traversal of a root with two child runs has returned
C8_Witness ==
    /\ logs_pc = "logs"
    /\ TreeSoFar
    /\ Cardinality(ChildRefs(flow_run_id)) = 2
    /\ Len(flow_runs) = 3

(***************************************************************************)
(* dispatch of pipeline_with_orgtasks                                      *)
(***************************************************************************)

\* the descriptor type the slug of a task calls for
TypeForSlug(slug) ==
    CASE slug = "airbyte-sync" -> AIRBYTECONNECTION
      [] slug = "git-pull" -> SHELLOPERATION
      [] OTHER -> DBTCORE

\* the fields that only the descriptor of one path carries
PathFields(config) ==
    {f \in DOMAIN config : f \in {"airbyte_server_block", "working_dir", "cli_profile_block"}}

\* C11: every task is dispatched by exact match on its slug: airbyte-sync
\* gives a sync descriptor, git-pull a shell descriptor, every other slug,
\* known or not, a dbt descriptor; each built task has exactly one
\* descriptor, of exactly one of the three kinds.
C11_DispatchBySlug ==
    /\ \A k \in 1..Len(task_configs) :
          LET config == task_configs[k]
              org_task == org_tasks[config.orgtask_uuid]
          IN /\ config.slug = org_task.slug
             /\ config.type = TypeForSlug(org_task.slug)
             /\ PathFields(config) =
                   CASE config.type = AIRBYTECONNECTION -> {"airbyte_server_block"}
                     [] config.type = SHELLOPERATION -> {"working_dir"}
                     [] OTHER -> {"working_dir", "cli_profile_block"}
    /\ \A i \in 1..(asm_i - 1) :
          Cardinality({k \in 1..Len(task_configs) : task_configs[k].orgtask_uuid = i})
             = (IF i \in asm_skipped THEN 0 ELSE 1)

\* a call returned a sync, a shell and a dbt descriptor, the dbt one for a
\* slug that is not among the known ones
C11_Witness ==
    /\ asm_pc = "returned"
    /\ {Returned[k].type : k \in 1..Len(Returned)} = {AIRBYTECONNECTION, SHELLOPERATION, DBTCORE}
    /\ \E k \in 1..Len(Returned) :
          Returned[k].slug = "custom-task" /\ Returned[k].type = DBTCORE

(***************************************************************************)
(* status queries of fetch_pipeline_lock                                   *)
(***************************************************************************)

\* C12: a lock without run id whose locking dataflow is the queried one is
\* reported queued without any status query; the engine is asked at most
\* once per call, and only for a lock that carries a run id.
C12_NoQueryWithoutRunId ==
    /\ status_queries <= 1
    /\ status_queries = 1 <=> engine_reply # None
    /\ status_queries = 1 => (lock # None /\ Get(lock).flow_run_id # Null)
    /\ (/\ lock_pc # "lookup"
        /\ lock # None
        /\ Get(lock).flow_run_id = Null
        /\ Get(lock).locking_dataflow = dataflow)
       => /\ lock_pc = "returned"
          /\ status_queries = 0
          /\ lock_result # None
          /\ Get(lock_result).status = QUEUED
          /\ Get(lock_result).flowRunId = Null

\* the dataflow's own lock without run id was found behind a row of another
\* task, and reported queued
C12_Witness ==
    /\ lock_pc = "returned"
    /\ lock # None
    /\ Get(lock).flow_run_id = Null
    /\ Get(lock).locking_dataflow = dataflow
    /\ Get(lock).locked_at = 2
    /\ status_queries = 0
    /\ Get(lock_result).status = QUEUED

(***************************************************************************)
(* order of traverse_flow_run_graph                                        *)
(***************************************************************************)

\* the pre-order, depth-first listing of the reported graph from run r:
\* r itself, then the listing of each child in the order of r's node list
RECURSIVE PreOrderOf(_), PreOrderOfNodes(_)
PreOrderOf(r) ==
    IF r = Null \/ graph[r] = None THEN <<r>>
    ELSE <<r>> \o PreOrderOfNodes(Get(graph[r]))

PreOrderOfNodes(nodes) ==
    IF nodes = <<>> THEN <<>>
    ELSE (IF Head(nodes).child_flow_run_id = Null THEN <<>>
          ELSE PreOrderOf(Head(nodes).child_flow_run_id))
         \o PreOrderOfNodes(Tail(nodes))

\* C13: the traversal is a pre-order depth-first walk: the root comes first,
\* a run is appended before its graph is requested and before its
\* descendants, the subtree of a child is appended before the next sibling,
\* siblings follow the node list, and a node without child run (or with a
\* null one) is not entered.
C13_PreOrderDepthFirst ==
    /\ flow_runs # <<>> => flow_runs[1] = flow_run_id
    /\ Len(graph_queries) <= Len(flow_runs)
    /\ \A k \in 1..Len(graph_queries) :
          graph_queries[k] = flow_runs[k] /\ graph_queries[k] # Null
    /\ \A k \in 2..Len(flow_runs) : flow_runs[k] # Null
    /\ TraversalReturned => flow_runs = PreOrderOf(flow_run_id)

\* the root reported its children 3 and 2, in this order, around a node with
\* a null child run; the traversal returned 1, 3, 2
C13_Witness ==
    /\ logs_pc = "logs"
    /\ flow_run_id = 1
    /\ flow_runs = <<1, 3, 2>>
    /\ Len(Get(graph[1])) = 3
    /\ Get(graph[1])[2].has_details
    /\ Get(graph[1])[2].child_flow_run_id = Null

(***************************************************************************)
(* traverse_flow_run_graph on graphs that are not trees                    *)
(***************************************************************************)

\* the reported graph has a cycle: some run is its own descendant
CycleReported ==
    \E r \in Runs : graph[r] # None /\ r \in ReachFrom(ChildRefs(r))

\* how often x occurs in a list
Occurrences(seq, x) == Cardinality({k \in 1..Len(seq) : seq[k] = x})

\* number of paths of the reported graph that lead from run r to run c
RECURSIVE PathsTo(_, _), PathsThrough(_, _)
PathsTo(r, c) ==
    IF r = Null THEN 0
    ELSE (IF r = c THEN 1 ELSE 0)
         + (IF graph[r] = None THEN 0 ELSE PathsThrough(Get(graph[r]), c))

PathsThrough(nodes, c) ==
    IF nodes = <<>> THEN 0
    ELSE PathsTo(Head(nodes).child_flow_run_id, c) + PathsThrough(Tail(nodes), c)

\* the traversal has a next step
TraversalCanStep == ENABLED (TraverseEnter \/ TraverseQuery \/ TraverseLoop)

====
